---- MODULE Spec2Model ----
(***************************************************************************)
(* ChemView operator console: the Dashboard component (plant tick, alert   *)
(* evaluation, command handlers, bounded stores) as a state machine.       *)
(*                                                                         *)
(* The repository holds two revisions of the Dashboard that differ in the  *)
(* places the model marks with `variant`:                                  *)
(*   "strict"  = src/src/components/chemical-mixing/Dashboard.tsx 1-452    *)
(*   "lenient" = src/unnamed/part_001                                      *)
(* The first revision of the component, Dashboard.tsx 454-709, has no      *)
(* interlocks, no manual mode and no traffic log; its process model and    *)
(* commands are the specification LegacySpec ("legacy").                   *)
(*                                                                         *)
(* Numbers.  rpm is in whole RPM; temp and ph are fixed point with two     *)
(* decimals (24.5 degC = 2450, pH 7.0 = 700).  Time is in milliseconds.    *)
(* x * 0.1 is x \div 10 and x * 0.05 is x \div 20.                         *)
(*                                                                         *)
(* React.  A handler, the re-render it causes and the effects of that      *)
(* re-render are one step: an effect whose dependencies changed clears its *)
(* interval and creates a new one, so its countdown starts again.          *)
(***************************************************************************)
EXTENDS Integers, Sequences, FiniteSets, TLC

VARIABLES
  variant,           \* which revision of the Dashboard is mounted
  mounted,           \* the component is mounted
  isRunning, isManualMode, isHeaterOn,
  rpm, temp, ph, valveOpen,
  targetRpmManual, targetTempManual,
  rpmHistory, tempHistory,
  alerts, auditLog, isAiProcessing,
  rxActive, txActive, packetCount, trafficLogs,
  plantTimer,        \* ms until the plant interval fires
  alertTimer,        \* ms until the alert interval fires
  aiTimeouts,        \* pending checkAlerts timeouts: ms left and the closure's values
  rxTimeouts,        \* pending setRxActive(false) timeouts: ms left
  txTimeouts,        \* pending setTxActive(false) timeouts: ms left
  now,               \* ms since the console was mounted
  toast,             \* the toast shown last, or NoToast
  ids,               \* the ids of the records in trafficLogs, auditLog and alerts,
                     \* on the consoles where they are followed
  stateLog,          \* the plant states the first revision records for its alerts
  ticksLeft,         \* plant ticks the run may still take
  cmdsLeft           \* operator commands the run may still take

vars == << variant, mounted, isRunning, isManualMode, isHeaterOn, rpm, temp, ph, valveOpen,
           targetRpmManual, targetTempManual, rpmHistory, tempHistory,
           alerts, auditLog, isAiProcessing, rxActive, txActive, packetCount,
           trafficLogs, plantTimer, alertTimer, aiTimeouts, rxTimeouts, txTimeouts,
           now, toast, ticksLeft, cmdsLeft, ids, stateLog >>

----------------------------------------------------------------------------
\* Bounds of the model

\* Plant ticks of one run
MaxTicks == 1

\* Operator commands of one run that starts at the mount
MaxCommands == 2

\* Operator commands of one run that starts at a console in service
AgedCommands == 1

\* Ticks taken on a console whose heater is left alone
MaxHoldTicks == 5

----------------------------------------------------------------------------
\* Program constants

PlantPeriod == 1000

AlertPeriod == 5000

AiDelay == 800

IndicatorDelay == 150

TrendCap == 60

AuditCap == 50

AlertCap == 5

Variants == {"strict", "lenient"}

TrafficCap(v) == IF v = "strict" THEN 50 ELSE 30

\* Fault: a write frame that carries the function code of a read
WriteFcOfRead(v) == "03"

\* Function code of a write frame
WriteFc(v) == IF v = "strict" THEN "05" ELSE "06"

ReadFc == "03"

\* Math.random() draws, as the values they lead to
RpmJitter == {0, 49}

HoldNoise == {-5, 0, 4}

FloorNoise == {-1, 0}

PhJitter == {20}

\* Where the operator drags the thumb of a slider: beyond the left end of
\* the track, beyond its right end
TargetRpmChoices == {-10, 1510}

TargetTempChoices == {1950, 10050}

\* Math.random().toString(36).substr(2, 9), as the values it can yield
Ids == {0, 1}

NoToast == [title |-> "", description |-> ""]

\* The alert messages, without their leading emoji
MsgOverheat == "AI Insight: Overheating detected in Reactor B7. Recommend cooling cycle."

MsgLowSpeed == "AI Insight: Mixer efficiency low. Check motor load."

MsgNominal == "AI Analysis: System operating within optimal parameters."

----------------------------------------------------------------------------
\* Pure helpers

Max(a, b) == IF a >= b THEN a ELSE b

\* Fault: a slider that reports where the thumb was dragged to
SliderUnclamped(raw, min, max) == raw

\* The Slider of components/ui/slider reports the position of its thumb,
\* which stays on the track from min to max
Slider(raw, min, max) == Max(min, IF raw < max THEN raw ELSE max)

\* xs.slice(-n): the last n elements
SliceLast(xs, n) == IF Len(xs) <= n THEN xs ELSE SubSeq(xs, Len(xs) - n + 1, Len(xs))

\* xs.slice(0, n): the first n elements
SliceFirst(xs, n) == IF Len(xs) <= n THEN xs ELSE SubSeq(xs, 1, n)

\* toLocaleTimeString with minute and second: seconds of the hour
TrendLabel(t) == (t \div 1000) % 3600

\* toLocaleTimeString with hour, minute and second: seconds of the day
ClockLabel(t) == (t \div 1000) % 86400

\* toLocaleTimeString with hour and minute: minutes of the day
MinuteLabel(t) == (t \div 60000) % 1440

----------------------------------------------------------------------------
\* The interlock conditions of the command handlers

\* Fault: a start handler that does not look at the valve
StartInterlockOff(running, valve) == FALSE

\* Fault: a handler that refuses the stop as well while the valve is open
StartInterlockBothWays(running, valve) == valve

\* toggleRunning: a start is refused while the discharge valve is open
StartInterlock(running, valve) == ~running /\ valve

\* toggleValve: refused while the mixer runs or still turns
ValveInterlock(v, running, speed) ==
  running \/ (IF v = "strict" THEN speed >= 1 ELSE speed > 5)

\* ControlPanel: the valve switch is shown locked and disabled
valveLocked(running, currentRpm) == running \/ currentRpm > 5

\* ControlPanel: the start button is shown locked
mixerLocked(valve) == valve

----------------------------------------------------------------------------
\* The process model of one tick

\* Fault: a coast-down of 10 RPM a tick
NextRpmSlowCoast(prev, running, manual, target, jitter) ==
  IF ~running
    THEN Max(0, prev - 10)
    ELSE LET targetRpm == IF manual THEN target ELSE 450 + jitter
         IN  prev + ((targetRpm - prev) \div 10)

\* Fault: the coast-down without its Math.max(0, ...)
NextRpmNoFloor(prev, running, manual, target, jitter) ==
  IF ~running
    THEN prev - 15
    ELSE LET targetRpm == IF manual THEN target ELSE 450 + jitter
         IN  prev + ((targetRpm - prev) \div 10)

\* Fault: a coast-down that leaves the last 15 RPM on the shaft
NextRpmNoStandstill(prev, running, manual, target, jitter) ==
  IF ~running
    THEN IF prev > 15 THEN prev - 15 ELSE prev
    ELSE LET targetRpm == IF manual THEN target ELSE 450 + jitter
         IN  prev + ((targetRpm - prev) \div 10)

\* Fault: a run-up by a tenth of the target instead of a tenth of the way
NextRpmOvershoot(prev, running, manual, target, jitter) ==
  IF ~running
    THEN Max(0, prev - 15)
    ELSE LET targetRpm == IF manual THEN target ELSE 450 + jitter
         IN  prev + (targetRpm \div 10)

\* RPM dynamics; jitter is Math.random() * 50
NextRpm(prev, running, manual, target, jitter) ==
  IF ~running
    THEN Max(0, prev - 15)
    ELSE LET targetRpm == IF manual THEN target ELSE 450 + jitter
         IN  prev + ((targetRpm - prev) \div 10)

\* Fault: a heater that keeps heating at and above its target
NextTempNoCutOff(prev, heater, manual, targetManual, hold, floor) ==
  IF heater THEN prev + 15
  ELSE IF prev > 2200 THEN prev - 5 ELSE prev + floor

\* Fault: a heater whose hold noise is twice as wide
NextTempLooseHold(prev, heater, manual, targetManual, hold, floor) ==
  IF heater
    THEN LET target == IF manual THEN targetManual ELSE 7500
         IN  IF prev < target THEN prev + 15 ELSE prev + 2 * hold
    ELSE IF prev > 2200 THEN prev - 5 ELSE prev + floor

\* Temperature dynamics; hold is (Math.random() - 0.5) * 0.1 and
\* floor is (Math.random() - 0.5) * 0.02, in hundredths
NextTemp(prev, heater, manual, targetManual, hold, floor) ==
  IF heater
    THEN LET target == IF manual THEN targetManual ELSE 7500
         IN  IF prev < target THEN prev + 15 ELSE prev + hold
    ELSE IF prev > 2200 THEN prev - 5 ELSE prev + floor

\* pH dynamics; jitter is Math.random() * 0.4 in hundredths
NextPh(prev, jitter) ==
  LET targetPh == 720 + jitter
  IN  prev + ((targetPh - prev) \div 20)

\* Fault: an automatic valve flip that does not look at isRunning
AutoValveFlipWhileRunning(v, manual, running, speed, draw) ==
  v = "lenient" /\ ~manual /\ draw /\ speed < 5

\* The automatic valve flip of the tick; draw is Math.random() > 0.98
AutoValveFlip(v, manual, running, speed, draw) ==
  v = "lenient" /\ ~manual /\ draw /\ ~running /\ speed < 5

----------------------------------------------------------------------------
\* The alerting rule of checkAlerts, on the values its closure holds

HighTemp(v) == IF v = "strict" THEN 8000 ELSE 8500

\* Fault: the overheat rule with >= for >
ClassifyAtOrAbove(v, speed, t, running, valve) ==
  IF t >= HighTemp(v)
    THEN [alertMessage |-> MsgOverheat, urgencyLevel |-> "high"]
  ELSE IF speed < 100 /\ running /\ (v = "strict" => valve)
    THEN [alertMessage |-> MsgLowSpeed, urgencyLevel |-> "medium"]
  ELSE [alertMessage |-> MsgNominal, urgencyLevel |-> "low"]

Classify(v, speed, t, running, valve) ==
  IF t > HighTemp(v)
    THEN [alertMessage |-> MsgOverheat, urgencyLevel |-> "high"]
  ELSE IF speed < 100 /\ running /\ (v = "strict" => valve)
    THEN [alertMessage |-> MsgLowSpeed, urgencyLevel |-> "medium"]
  ELSE [alertMessage |-> MsgNominal, urgencyLevel |-> "low"]

\* Fault: an updater that never takes the early return
IsDuplicateNever(prev, message) == FALSE

\* The guard of the setAlerts updater: the newest alert has this message
IsDuplicate(prev, message) ==
  Len(prev) > 0 /\ prev[1].data.alertMessage = message

\* Fault: an updater that audits every new alert
AuditedAlways(urgency) == TRUE

\* The guard of the setAuditLog call in the updater
Audited(urgency) == urgency # "low"

----------------------------------------------------------------------------
\* The bounded stores

\* Fault: a sample with the value of the last one is not appended
AppendTrendUnlessRepeated(prev, sample) ==
  IF prev # << >> /\ prev[Len(prev)].value = sample.value THEN prev
  ELSE SliceLast(Append(prev, sample), TrendCap)

\* Fault: slice(0, 60) for slice(-60)
AppendTrendKeepOldest(prev, sample) == SliceFirst(Append(prev, sample), TrendCap)

\* Fault: a sample of a plant at rest, value 0, is left out
AppendTrendAtWork(prev, sample) ==
  IF sample.value = 0 THEN prev ELSE SliceLast(Append(prev, sample), TrendCap)

\* [...prev, sample].slice(-60)
AppendTrend(prev, sample) == SliceLast(Append(prev, sample), TrendCap)

\* Fault: the record is put behind the log instead of in front of it
PushAuditOldest(log, record) == SliceFirst(log \o <<record>>, AuditCap)

\* [record, ...log].slice(0, 50)
PushAudit(log, record) == SliceFirst(<<record>> \o log, AuditCap)

\* Fault: the alert list is not cut after the push
PushAlertUncut(prev, record) == <<record>> \o prev

\* [record, ...prev].slice(0, 5)
PushAlert(prev, record) == SliceFirst(<<record>> \o prev, AlertCap)

\* Fault: a full traffic log drops the new record instead of the oldest
AppendTrafficKeepOldest(v, prev, record) ==
  SliceFirst(Append(prev, record), TrafficCap(v))

\* [...prev, record].slice(-50)  (slice(-30) in part_001)
AppendTraffic(v, prev, record) == SliceLast(Append(prev, record), TrafficCap(v))

AuditRecord(t, message, level) ==
  [timestamp |-> ClockLabel(t), message |-> message, level |-> level]

AlertRecord(t, result) == [timestamp |-> MinuteLabel(t), data |-> result]

\* The frame is the fixed header, the function code and four random payload
\* bytes; the payload is not modelled.
TrafficRecord(t, direction, fc) ==
  [timestamp |-> ClockLabel(t), direction |-> direction, fc |-> fc]

----------------------------------------------------------------------------
\* The state of the component as one value, so that a handler is a function
\* from the state it is called in to the state it leaves

state ==
  [variant |-> variant, mounted |-> mounted,
   isRunning |-> isRunning, isManualMode |-> isManualMode, isHeaterOn |-> isHeaterOn,
   rpm |-> rpm, temp |-> temp, ph |-> ph, valveOpen |-> valveOpen,
   targetRpmManual |-> targetRpmManual, targetTempManual |-> targetTempManual,
   rpmHistory |-> rpmHistory, tempHistory |-> tempHistory,
   alerts |-> alerts, auditLog |-> auditLog, isAiProcessing |-> isAiProcessing,
   rxActive |-> rxActive, txActive |-> txActive, packetCount |-> packetCount,
   trafficLogs |-> trafficLogs, plantTimer |-> plantTimer, alertTimer |-> alertTimer,
   aiTimeouts |-> aiTimeouts, rxTimeouts |-> rxTimeouts, txTimeouts |-> txTimeouts,
   now |-> now, toast |-> toast]

\* The component right after its mount
Fresh(v) ==
  [variant |-> v, mounted |-> TRUE,
   isRunning |-> FALSE, isManualMode |-> FALSE, isHeaterOn |-> FALSE,
   rpm |-> 0, temp |-> 2450, ph |-> 700, valveOpen |-> FALSE,
   targetRpmManual |-> 500, targetTempManual |-> 6000,
   rpmHistory |-> << >>, tempHistory |-> << >>,
   alerts |-> << >>, auditLog |-> << >>, isAiProcessing |-> FALSE,
   rxActive |-> FALSE, txActive |-> FALSE, packetCount |-> 0,
   trafficLogs |-> << >>, plantTimer |-> PlantPeriod, alertTimer |-> AlertPeriod,
   aiTimeouts |-> << >>, rxTimeouts |-> << >>, txTimeouts |-> << >>,
   now |-> 0, toast |-> NoToast]

----------------------------------------------------------------------------
\* Effects: an interval is created again when a dependency of its effect changed

\* Plant effect [tick, rpm, temp]; tick closes over the command state
PlantDeps(s) ==
  << s.isRunning, s.isManualMode, s.isHeaterOn, s.targetRpmManual, s.targetTempManual,
     s.rpm, s.temp >>

\* Alert effect [checkAlerts]; checkAlerts closes over these
AlertDeps(s) ==
  IF s.variant = "strict" THEN << s.rpm, s.temp, s.isRunning, s.valveOpen >>
                          ELSE << s.rpm, s.temp, s.isRunning >>

\* The render after a callback that was called in s and left t
RearmPlant(s, t) == IF PlantDeps(t) # PlantDeps(s) THEN PlantPeriod ELSE t.plantTimer

RearmAlert(s, t) == IF AlertDeps(t) # AlertDeps(s) THEN AlertPeriod ELSE t.alertTimer

Render(s, t) ==
  [t EXCEPT !.plantTimer = RearmPlant(s, t), !.alertTimer = RearmAlert(s, t)]

----------------------------------------------------------------------------
\* The traffic triggers

triggerTx(s) ==
  [s EXCEPT !.txActive = TRUE,
            !.packetCount = @ + 1,
            !.trafficLogs = AppendTraffic(s.variant, @,
                              TrafficRecord(s.now, "TX", WriteFc(s.variant))),
            !.txTimeouts = Append(@, IndicatorDelay)]

\* Fault: a read frame that is logged but not counted
triggerRxUncounted(s) ==
  [s EXCEPT !.rxActive = TRUE,
            !.trafficLogs = AppendTraffic(s.variant, @, TrafficRecord(s.now, "RX", ReadFc)),
            !.rxTimeouts = Append(@, IndicatorDelay)]

triggerRx(s) ==
  [s EXCEPT !.rxActive = TRUE,
            !.packetCount = @ + 1,
            !.trafficLogs = AppendTraffic(s.variant, @, TrafficRecord(s.now, "RX", ReadFc)),
            !.rxTimeouts = Append(@, IndicatorDelay)]

Prefix(v) == IF v = "strict" THEN "INFO: " ELSE ""

OnOff(b, on, off) == IF b THEN on ELSE off

----------------------------------------------------------------------------
\* The plant interval callback: tick(), then one sample per trend series.  The
\* samples carry the rpm and temp of the render the callback closes over.
\* d holds the Math.random() draws of the tick.

tick(s, d) ==
  LET polled == triggerRx(s)
      moved  == [polled EXCEPT
                   !.rpm = NextRpm(s.rpm, s.isRunning, s.isManualMode,
                                   s.targetRpmManual, d.jitter),
                   !.temp = NextTemp(s.temp, s.isHeaterOn, s.isManualMode,
                                     s.targetTempManual, d.hold, d.floor),
                   !.ph = NextPh(s.ph, d.phJitter)]
  IN  IF AutoValveFlip(s.variant, s.isManualMode, s.isRunning, s.rpm, d.draw)
        THEN triggerTx([moved EXCEPT !.valveOpen = ~@])
        ELSE moved

plantInterval(s, d) ==
  LET ticked == tick(s, d)
      label  == TrendLabel(s.now)
      t == [ticked EXCEPT
              !.rpmHistory = AppendTrend(@, [time |-> label, value |-> s.rpm]),
              !.tempHistory = AppendTrend(@, [time |-> label, value |-> s.temp]),
              !.plantTimer = PlantPeriod]
  IN  [t EXCEPT !.alertTimer = RearmAlert(s, t)]

Draws ==
  [jitter : RpmJitter, hold : HoldNoise, floor : FloorNoise, phJitter : PhJitter,
   draw : BOOLEAN]

----------------------------------------------------------------------------
\* checkAlerts

\* The values the closure of the timeout callback holds
Captured(s) ==
  [left |-> AiDelay, rpm |-> s.rpm, temp |-> s.temp,
   isRunning |-> s.isRunning, valveOpen |-> s.valveOpen]

\* The alert interval callback: checkAlerts() up to its setTimeout
checkAlerts(s) ==
  [s EXCEPT !.isAiProcessing = TRUE,
            !.aiTimeouts = Append(@, Captured(s)),
            !.alertTimer = AlertPeriod]

\* Fault: a timeout callback that reads the state it runs in
ClosureLive(s, c) ==
  [c EXCEPT !.rpm = s.rpm, !.temp = s.temp,
            !.isRunning = s.isRunning, !.valveOpen = s.valveOpen]

\* The timeout callback reads the rpm, temp, isRunning and valveOpen of the
\* render in which checkAlerts was created, c, not those of the state s it
\* runs in
Closure(s, c) == c

\* The timeout callback of checkAlerts: classify, drop a duplicate, store.
\* State updates of a component that is no longer mounted are dropped.
aiTimeout(s) ==
  LET c      == Closure(s, Head(s.aiTimeouts))
      result == Classify(s.variant, c.rpm, c.temp, c.isRunning, c.valveOpen)
      done   == [s EXCEPT !.aiTimeouts = Tail(@)]
  IN  IF ~s.mounted THEN done
      ELSE IF IsDuplicate(s.alerts, result.alertMessage)
        THEN [done EXCEPT !.isAiProcessing = FALSE]
      ELSE [done EXCEPT
              !.isAiProcessing = FALSE,
              !.alerts = PushAlert(@, AlertRecord(s.now, result)),
              !.auditLog = IF Audited(result.urgencyLevel)
                             THEN PushAudit(@, AuditRecord(s.now, result.alertMessage,
                                                           result.urgencyLevel))
                             ELSE @]

----------------------------------------------------------------------------
\* Time passes until the next interval or checkAlerts timeout is due.  The
\* indicator timeouts that expire on the way run on the way: each only calls
\* setRxActive(false) or setTxActive(false).

\* The intervals are cleared at the unmount, the timeouts are not
PendingTimers(s) ==
  (IF s.mounted THEN {s.plantTimer, s.alertTimer} ELSE {})
    \cup { s.aiTimeouts[i].left : i \in 1..Len(s.aiTimeouts) }

IndicatorTimers(s) ==
  { s.rxTimeouts[i] : i \in 1..Len(s.rxTimeouts) }
    \cup { s.txTimeouts[i] : i \in 1..Len(s.txTimeouts) }

Least(S) == CHOOSE d \in S : \A e \in S : d <= e

Greatest(S) == CHOOSE d \in S : \A e \in S : d >= e

\* ms until the next interval or checkAlerts timeout; without one, until the
\* last indicator timeout; 0 when nothing is pending
NextDue(s) ==
  IF PendingTimers(s) # {} THEN Least(PendingTimers(s))
  ELSE IF IndicatorTimers(s) # {} THEN Greatest(IndicatorTimers(s))
  ELSE 0

\* The timeouts of a list that are still pending after d ms
StillPending(xs, d) ==
  LET keep == SelectSeq(xs, LAMBDA left : left > d)
  IN  [i \in 1..Len(keep) |-> keep[i] - d]

Expires(xs, d) == \E i \in 1..Len(xs) : xs[i] <= d

advance(s) ==
  LET d == NextDue(s)
  IN  [s EXCEPT
         !.now = @ + d,
         !.plantTimer = IF s.mounted THEN @ - d ELSE @,
         !.alertTimer = IF s.mounted THEN @ - d ELSE @,
         !.aiTimeouts = [i \in 1..Len(s.aiTimeouts) |->
                           [s.aiTimeouts[i] EXCEPT !.left = @ - d]],
         !.rxTimeouts = StillPending(@, d),
         !.txTimeouts = StillPending(@, d),
         !.rxActive = IF s.mounted /\ Expires(s.rxTimeouts, d) THEN FALSE ELSE @,
         !.txActive = IF s.mounted /\ Expires(s.txTimeouts, d) THEN FALSE ELSE @]

----------------------------------------------------------------------------
\* The command handlers

\* Fault: a refusal that shows no toast
DeniedSilently(s, title, description) == [s EXCEPT !.toast = NoToast]

Denied(s, title, description) ==
  [s EXCEPT !.toast = [title |-> title, description |-> description]]

audit(s, t, message, level) ==
  [t EXCEPT !.auditLog = PushAudit(@, AuditRecord(s.now, message, level))]

toggleRunning(s) ==
  IF StartInterlock(s.isRunning, s.valveOpen)
    THEN Denied(s, "Interlock Active",
                "Mixer cannot be started while Discharge Valve is OPEN.")
    ELSE audit(s, triggerTx([s EXCEPT !.isRunning = ~@]),
               Prefix(s.variant) \o "Mixer " \o OnOff(~s.isRunning, "STARTED", "STOPPED")
                 \o " by Operator", "low")

toggleValve(s) ==
  IF ValveInterlock(s.variant, s.isRunning, s.rpm)
    THEN IF s.variant = "strict"
           THEN Denied(s, "Action Denied",
                       "Safety Lock: Wait for 0 RPM before discharging.")
           ELSE Denied(s, "Interlock Active",
                       "Valve cannot be opened while Mixer is RUNNING.")
    ELSE audit(s, triggerTx([s EXCEPT !.valveOpen = ~@]),
               Prefix(s.variant) \o OnOff(s.variant = "strict", "Discharge Valve ", "Valve ")
                 \o OnOff(~s.valveOpen, "OPENED", "CLOSED") \o " by Operator", "low")

\* The rpm the control panel is given: Dashboard.tsx passes currentRpm={rpm},
\* part_001 passes none, and undefined > 5 is false
currentRpm(s) == IF s.variant = "strict" THEN s.rpm ELSE 0

\* Fault: a valve card that takes clicks only while the valve is unlocked
onValveClickUnlocked(s) ==
  IF valveLocked(s.isRunning, currentRpm(s)) THEN s ELSE toggleValve(s)

\* A click on the valve control of the panel: while the valve is locked the
\* switch is disabled and the onClick of the card around it calls
\* onToggleValve; otherwise the switch calls it through onCheckedChange
onValveClick(s) ==
  IF valveLocked(s.isRunning, currentRpm(s)) THEN toggleValve(s) ELSE toggleValve(s)

\* Dashboard.tsx audits the heater switch; part_001 wires it inline, without
toggleHeater(s) ==
  LET t == triggerTx([s EXCEPT !.isHeaterOn = ~@])
  IN  IF s.variant = "strict"
        THEN audit(s, t, "INFO: Heater System "
                           \o OnOff(~s.isHeaterOn, "ACTIVATED", "DEACTIVATED")
                           \o " - Setpoint", "low")
        ELSE t

onToggleMode(s) == triggerTx([s EXCEPT !.isManualMode = ~@])

setTargetRpm(s, val) == triggerTx([s EXCEPT !.targetRpmManual = val])

setTargetTemp(s, val) == triggerTx([s EXCEPT !.targetTempManual = val])

\* Fault: an emergency stop that leaves the shaft turning
emergencyStopCoasting(s) ==
  audit(s, triggerTx([s EXCEPT !.isRunning = FALSE, !.isHeaterOn = FALSE]),
        OnOff(s.variant = "strict", "EMERGENCY STOP TRIGGERED BY OPERATOR",
                                    "EMERGENCY STOP TRIGGERED"), "high")

emergencyStop(s) ==
  audit(s, triggerTx([s EXCEPT !.isRunning = FALSE, !.isHeaterOn = FALSE, !.rpm = 0]),
        OnOff(s.variant = "strict", "EMERGENCY STOP TRIGGERED BY OPERATOR",
                                    "EMERGENCY STOP TRIGGERED"), "high")

\* The cleanups of the two effects: clearInterval, twice
unmount(s) == [s EXCEPT !.mounted = FALSE]

----------------------------------------------------------------------------
\* The callbacks and handlers as steps of the component

\* The sequences of n ids Math.random() can yield
Drawn(n) == [1..n -> Ids]

\* Two records of the store have the same id
Twice(xs) == Cardinality({ xs[i] : i \in 1..Len(xs) }) < Len(xs)

\* The ids of the stores after a step from s to t: every record the step has
\* put in a store has the id drawn for it.  The ids are followed up to the
\* first state in which two records of a store have the same id.
Stamped(old, s, t) ==
  IF ~old.followed \/ Twice(old.traffic) \/ Twice(old.audit) \/ Twice(old.alerts)
    THEN {old}
    ELSE { [followed |-> TRUE,
            traffic |-> SliceLast(old.traffic \o tx, TrafficCap(s.variant)),
            audit   |-> SliceFirst(au \o old.audit, AuditCap),
            alerts  |-> SliceFirst(al \o old.alerts, AlertCap)] :
             tx \in Drawn(t.packetCount - s.packetCount),
             au \in Drawn(IF t.auditLog # s.auditLog THEN 1 ELSE 0),
             al \in Drawn(IF t.alerts # s.alerts THEN 1 ELSE 0) }

\* The step leaves the component in state t
Load(t) ==
  /\ variant' = t.variant /\ mounted' = t.mounted
  /\ isRunning' = t.isRunning /\ isManualMode' = t.isManualMode
  /\ isHeaterOn' = t.isHeaterOn
  /\ rpm' = t.rpm /\ temp' = t.temp /\ ph' = t.ph /\ valveOpen' = t.valveOpen
  /\ targetRpmManual' = t.targetRpmManual /\ targetTempManual' = t.targetTempManual
  /\ rpmHistory' = t.rpmHistory /\ tempHistory' = t.tempHistory
  /\ alerts' = t.alerts /\ auditLog' = t.auditLog /\ isAiProcessing' = t.isAiProcessing
  /\ rxActive' = t.rxActive /\ txActive' = t.txActive /\ packetCount' = t.packetCount
  /\ trafficLogs' = t.trafficLogs
  /\ plantTimer' = t.plantTimer /\ alertTimer' = t.alertTimer
  /\ aiTimeouts' = t.aiTimeouts /\ rxTimeouts' = t.rxTimeouts /\ txTimeouts' = t.txTimeouts
  /\ now' = t.now /\ toast' = t.toast
  /\ ids' \in Stamped(ids, state, t)
  /\ stateLog' = stateLog

\* Fault: a plant interval that waits for a pending evaluation
PlantDueWhenIdle(s) == s.mounted /\ s.plantTimer = 0 /\ ~s.isAiProcessing

\* The plant interval is due
PlantDue(s) == s.mounted /\ s.plantTimer = 0

\* The alert interval is due
AlertDue(s) == s.mounted /\ s.alertTimer = 0

\* The oldest checkAlerts timeout is due
AiDue(s) == s.aiTimeouts # << >> /\ Head(s.aiTimeouts).left = 0

PlantInterval ==
  /\ PlantDue(state)
  /\ ticksLeft > 0
  /\ \E d \in Draws : Load(plantInterval(state, d))
  /\ ticksLeft' = ticksLeft - 1
  /\ UNCHANGED cmdsLeft

AlertInterval ==
  /\ AlertDue(state)
  /\ Load(checkAlerts(state))
  /\ UNCHANGED << ticksLeft, cmdsLeft >>

AiTimeout ==
  /\ AiDue(state)
  /\ Load(aiTimeout(state))
  /\ UNCHANGED << ticksLeft, cmdsLeft >>

Advance ==
  /\ NextDue(state) > 0
  /\ Load(advance(state))
  /\ UNCHANGED << ticksLeft, cmdsLeft >>

\* The operator acts on the mounted console: the handler leaves t, then the
\* component renders
Command(t) ==
  /\ cmdsLeft > 0
  /\ Load(Render(state, t))
  /\ cmdsLeft' = cmdsLeft - 1
  /\ UNCHANGED ticksLeft

ToggleRunning ==
  /\ mounted
  /\ Command(toggleRunning(state))

ToggleValve ==
  /\ mounted
  /\ Command(onValveClick(state))

ToggleHeater ==
  /\ mounted
  /\ Command(toggleHeater(state))

ToggleMode ==
  /\ mounted
  /\ Command(onToggleMode(state))

\* The sliders take input in manual mode and report a value when it changes
SetTargetRpm ==
  /\ mounted /\ isManualMode
  /\ \E raw \in TargetRpmChoices :
       /\ Slider(raw, 0, 1500) # targetRpmManual
       /\ Command(setTargetRpm(state, Slider(raw, 0, 1500)))

SetTargetTemp ==
  /\ mounted /\ isManualMode
  /\ \E raw \in TargetTempChoices :
       /\ Slider(raw, 2000, 10000) # targetTempManual
       /\ Command(setTargetTemp(state, Slider(raw, 2000, 10000)))

EmergencyStop ==
  /\ mounted
  /\ Command(emergencyStop(state))

\* The operator leaves the page
Unmount ==
  /\ mounted
  /\ cmdsLeft > 0
  /\ Load(unmount(state))
  /\ cmdsLeft' = cmdsLeft - 1
  /\ UNCHANGED ticksLeft

Next ==
  \/ PlantInterval
  \/ AlertInterval
  \/ AiTimeout
  \/ Advance
  \/ ToggleRunning
  \/ ToggleValve
  \/ ToggleHeater
  \/ ToggleMode
  \/ SetTargetRpm
  \/ SetTargetTemp
  \/ EmergencyStop
  \/ Unmount

----------------------------------------------------------------------------
\* Consoles in service.  Each is the state a scripted run leaves: the run
\* starts at the mount and takes the steps above, the callbacks in the order
\* of Scheduled and the commands where the script has them.

\* The draws of a tick without noise
Quiet == [jitter |-> 0, hold |-> 0, floor |-> 0, phJitter |-> 20, draw |-> FALSE]

\* One callback, or the passage of time to the next one
Scheduled(s, d) ==
  IF AiDue(s) THEN aiTimeout(s)
  ELSE IF PlantDue(s) THEN plantInterval(s, d)
  ELSE IF AlertDue(s) THEN checkAlerts(s)
  ELSE advance(s)

\* The element of a set of one
The(S) == CHOOSE r \in S : TRUE

RECURSIVE ThroughTick(_, _)
\* The run up to and with the next plant tick
ThroughTick(s, d) ==
  IF ~AiDue(s) /\ PlantDue(s) THEN plantInterval(s, d)
  ELSE The({ ThroughTick(t, d) : t \in {Scheduled(s, d)} })

RECURSIVE Ticks(_, _, _)
\* The run through the next n plant ticks
Ticks(s, d, n) ==
  IF n = 0 THEN s
  ELSE IF n = 1 THEN ThroughTick(s, d)
  ELSE The({ Ticks(h, d, n - (n \div 2)) : h \in {Ticks(s, d, n \div 2)} })

\* The handler of a command of a script, with the render after it
Handled(s, c) ==
  Render(s, CASE c.op = "toggleRunning" -> toggleRunning(s)
              [] c.op = "toggleValve"   -> onValveClick(s)
              [] c.op = "toggleHeater"  -> toggleHeater(s)
              [] c.op = "toggleMode"    -> onToggleMode(s)
              [] c.op = "setTargetRpm"  -> setTargetRpm(s, Slider(c.val, 0, 1500))
              [] c.op = "setTargetTemp" -> setTargetTemp(s, Slider(c.val, 2000, 10000))
              [] c.op = "emergencyStop" -> emergencyStop(s))

\* One step of a script
Played(s, e) ==
  CASE e.op = "ticks" -> Ticks(s, e.d, e.n)
    [] e.op = "step"  -> Scheduled(s, e.d)
    [] OTHER          -> Handled(s, e)

RECURSIVE Replay(_, _)
\* The state a script leaves, its first half played before its second
Replay(s, script) ==
  IF script = << >> THEN s
  ELSE IF Len(script) = 1 THEN Played(s, script[1])
  ELSE The({ Replay(t, SubSeq(script, (Len(script) \div 2) + 1, Len(script))) :
               t \in {Replay(s, SubSeq(script, 1, Len(script) \div 2))} })

Cmd(op) == [op |-> op, val |-> 0]

Set(op, val) == [op |-> op, val |-> val]

Run(n) == [op |-> "ticks", n |-> n, d |-> Quiet]

Noisy(n, hold) == [op |-> "ticks", n |-> n, d |-> [Quiet EXCEPT !.hold = hold]]

Step == [op |-> "step", d |-> Quiet]

\* An idle console in auto mode: the temperature settles at 22 degC with tick
\* 50, the first evaluation starts after tick 55, the next after tick 60
Idle == { << Run(55) >>, << Run(59) >>, << Run(60) >> }

\* Started in auto mode, stopped at 153 RPM, coasted down to 3 RPM
Coasting ==
  { << Cmd("toggleRunning"), Run(4), Cmd("toggleRunning"), Run(10) >> }

\* A mixer that runs in manual mode and has settled at 100 RPM, at 99 RPM
Slow ==
  { << Cmd("toggleMode"), Cmd("toggleRunning"), Run(3),
       Set("setTargetRpm", 100), Run(52) >>,
    << Cmd("toggleMode"), Cmd("toggleRunning"), Run(3),
       Set("setTargetRpm", 110), Run(30), Set("setTargetRpm", -10), Run(1),
       Set("setTargetRpm", 100), Run(21) >> }

\* A mixer that runs in manual mode with the speed slider at its right end,
\* 1500 RPM, and has reached its top speed
Fast ==
  { << Cmd("toggleMode"), Cmd("toggleRunning"), Set("setTargetRpm", 1510), Run(60) >> }

\* Manual mode, heater on with the setpoint slider at its right end, 100 degC,
\* for k ticks, then at its left end, 20 degC: the heater holds the temperature it has reached
Heated(k) ==
  << Cmd("toggleMode"), Set("setTargetTemp", 10050), Cmd("toggleHeater"), Run(k),
     Set("setTargetTemp", 1950) >>

\* The mixer started with the speed setpoint at 0
Turning == << Cmd("toggleMode"), Set("setTargetRpm", -10), Cmd("toggleRunning"),
              Cmd("toggleMode") >>

\* 80.00, 80.04, 85.00 and 85.04 degC, each held through five ticks
Held ==
  { Heated(370), Heated(370) \o << Noisy(1, 4) >>,
    Heated(404) \o << Noisy(2, -5) >>, Heated(404) \o << Noisy(2, -5), Noisy(1, 4) >> }

Hot ==
  { held \o << Run(5) >> : held \in Held }
    \cup { Turning \o held \o << Run(5) >> : held \in Held }
    \cup { Heated(404) \o << Run(10) >> }

\* A console whose plant interval was created again 800 ms after a tick, by
\* two mode switches, while its alert interval kept its phase
Shifted ==
  { << Run(55), Step, Step, Cmd("toggleMode"), Cmd("toggleMode"), Step, Run(4) >> }

\* n commands to the discharge valve, a tick after each
Toggles(n) ==
  [i \in 1..(2 * n) |-> IF i % 2 = 1 THEN Cmd("toggleValve") ELSE Run(1)]

\* k evaluations, each after five quiet ticks and each followed by a tick
\* that moves the held temperature, by first and back in turn
Swing(first, k) ==
  [i \in 1..(2 * k) |->
     IF i % 2 = 1 THEN Run(5)
     ELSE Noisy(1, IF i % 4 = 2 THEN first ELSE IF first = 4 THEN -5 ELSE 4)]

\* The temperature held 0.04 degC above the overheat threshold of the revision
Over(v) ==
  IF v = "strict" THEN Heated(370) \o << Noisy(1, 4) >>
  ELSE Heated(404) \o << Noisy(2, -5), Noisy(1, 4) >>

\* Consoles with a long history.  The temperature has swung across the
\* overheat threshold between the evaluations, which have alternated between
\* overheat and nominal.  The first has 49 audit records and 4 alerts and the
\* second a full audit log and a full alert list; in both the next evaluation
\* is due and meets an overheat.
Worn(v) ==
  { (IF v = "strict" THEN << >> ELSE << Cmd("emergencyStop") >>)
      \o Over(v) \o Toggles(46) \o Swing(-5, 4) \o << Run(5) >>,
    Over(v) \o Toggles(48) \o Swing(-5, 6) \o << Run(5) >> }

Scripts(v) ==
  { << >> } \cup Idle \cup Coasting \cup Slow \cup Fast \cup Hot \cup Shifted \cup Worn(v)

\* The consoles on which the ids of the records are followed
Followed == { << Run(59) >> }

\* The records a console holds at the start have ids that differ: the newest
\* of a store has 1, the one before it 2, and so on
Serial(s) ==
  [followed |-> TRUE,
   traffic |-> [i \in 1..Len(s.trafficLogs) |-> Len(s.trafficLogs) + 1 - i],
   audit   |-> [i \in 1..Len(s.auditLog) |-> i],
   alerts  |-> [i \in 1..Len(s.alerts) |-> i]]

Unfollowed == [followed |-> FALSE, traffic |-> << >>, audit |-> << >>, alerts |-> << >>]

Init ==
  \E v \in Variants : \E script \in Scripts(v) :
    \E s \in {Replay(Fresh(v), script)} :
        /\ variant = s.variant /\ mounted = s.mounted
        /\ isRunning = s.isRunning /\ isManualMode = s.isManualMode
        /\ isHeaterOn = s.isHeaterOn
        /\ rpm = s.rpm /\ temp = s.temp /\ ph = s.ph /\ valveOpen = s.valveOpen
        /\ targetRpmManual = s.targetRpmManual /\ targetTempManual = s.targetTempManual
        /\ rpmHistory = s.rpmHistory /\ tempHistory = s.tempHistory
        /\ alerts = s.alerts /\ auditLog = s.auditLog /\ isAiProcessing = s.isAiProcessing
        /\ rxActive = s.rxActive /\ txActive = s.txActive /\ packetCount = s.packetCount
        /\ trafficLogs = s.trafficLogs
        /\ plantTimer = s.plantTimer /\ alertTimer = s.alertTimer
        /\ aiTimeouts = s.aiTimeouts /\ rxTimeouts = s.rxTimeouts
        /\ txTimeouts = s.txTimeouts
        /\ now = s.now /\ toast = s.toast
        /\ stateLog = << >>
        /\ ids \in {Unfollowed} \cup (IF script \in Followed THEN {Serial(s)} ELSE {})
        /\ ticksLeft = MaxTicks
        /\ cmdsLeft = IF script = << >> THEN MaxCommands ELSE AgedCommands

Spec == Init /\ [][Next]_vars

----------------------------------------------------------------------------
\* The first revision of the Dashboard (Dashboard.tsx 454-709): process
\* model, trend and state log, start/stop and emergency stop.  Its alerting
\* asks a generative flow for a message and writes alerts and isAiProcessing
\* only; it is not part of this specification.

LegacyTempJitter == {0, 199}

LegacyStateCap == 10

\* RPM of the first revision; jitter is Math.random() * 50
LegacyNextRpm(prev, running, jitter) ==
  IF ~running THEN Max(0, prev - 15)
  ELSE prev + ((450 + jitter - prev) \div 10)

\* Temperature of the first revision; jitter is Math.random() * 2 in hundredths
LegacyNextTemp(prev, running, jitter) ==
  IF ~running THEN Max(2200, prev - 5)
  ELSE prev + ((6500 + jitter - prev) \div 50)

\* pH of the first revision; noise is (Math.random() - 0.5) * 0.01
LegacyNextPh(prev, running, noise, jitter) ==
  IF ~running THEN prev + noise ELSE NextPh(prev, jitter)

\* "Periodically flip valve": past the early return of a stopped mixer;
\* draw is Math.random() > 0.95
LegacyValveFlip(running, draw) == running /\ draw

LegacyDraws ==
  [jitter : RpmJitter, tempJitter : LegacyTempJitter, phJitter : PhJitter,
   noise : FloorNoise, draw : BOOLEAN]

LegacyQuiet == [jitter |-> 0, tempJitter |-> 0, phJitter |-> 20, noise |-> 0, draw |-> FALSE]

\* The state of the first revision after the mount
LegacyFresh ==
  [isRunning |-> FALSE, rpm |-> 0, temp |-> 2450, ph |-> 700, valveOpen |-> FALSE,
   rpmHistory |-> << >>, tempHistory |-> << >>, stateLog |-> << >>,
   plantTimer |-> PlantPeriod, now |-> 0]

\* Interval effect [tick, rpm, temp, ph, valveOpen], tick [isRunning]
LegacyDeps(s) == << s.isRunning, s.rpm, s.temp, s.ph, s.valveOpen >>

LegacyRender(s, t) ==
  [t EXCEPT !.plantTimer = IF LegacyDeps(t) # LegacyDeps(s) THEN PlantPeriod ELSE @]

\* The interval callback: tick(), then the samples and the state record with
\* the values of its closure
legacyInterval(s, d) ==
  [s EXCEPT
     !.rpm = LegacyNextRpm(@, s.isRunning, d.jitter),
     !.temp = LegacyNextTemp(@, s.isRunning, d.tempJitter),
     !.ph = LegacyNextPh(@, s.isRunning, d.noise, d.phJitter),
     !.valveOpen = IF LegacyValveFlip(s.isRunning, d.draw) THEN ~@ ELSE @,
     !.rpmHistory = AppendTrend(@, [time |-> TrendLabel(s.now), value |-> s.rpm]),
     !.tempHistory = AppendTrend(@, [time |-> TrendLabel(s.now), value |-> s.temp]),
     !.stateLog = SliceLast(Append(@, [mixingSpeedRpm |-> s.rpm,
                                       temperatureCelsius |-> s.temp,
                                       pHLevel |-> s.ph,
                                       valveStatus |-> s.valveOpen,
                                       timestamp |-> s.now]), LegacyStateCap),
     !.plantTimer = PlantPeriod]

legacyToggleRunning(s) == [s EXCEPT !.isRunning = ~@]

legacyEmergencyStop(s) == [s EXCEPT !.isRunning = FALSE, !.rpm = 0, !.valveOpen = FALSE]

legacyAdvance(s) == [s EXCEPT !.now = @ + s.plantTimer, !.plantTimer = 0]

RECURSIVE LegacyTicks(_, _)
\* The run through the next n plant ticks
LegacyTicks(s, n) ==
  IF n = 0 THEN s
  ELSE The({ legacyInterval(legacyAdvance(t), LegacyQuiet) : t \in {LegacyTicks(s, n - 1)} })

\* Consoles of the first revision: just mounted, stopped for 12 ticks, started
\* and run for 3 and for 12 ticks, run for 12 ticks and stopped for 2
LegacyConsoles ==
  { LegacyFresh,
    LegacyTicks(LegacyFresh, 12),
    LegacyTicks(LegacyRender(LegacyFresh, legacyToggleRunning(LegacyFresh)), 3),
    LegacyTicks(LegacyRender(LegacyFresh, legacyToggleRunning(LegacyFresh)), 12),
    The({ LegacyTicks(LegacyRender(t, legacyToggleRunning(t)), 2) :
            t \in {LegacyTicks(LegacyRender(LegacyFresh, legacyToggleRunning(LegacyFresh)), 12)} }) }

legacyState ==
  [isRunning |-> isRunning, rpm |-> rpm, temp |-> temp, ph |-> ph, valveOpen |-> valveOpen,
   rpmHistory |-> rpmHistory, tempHistory |-> tempHistory, stateLog |-> stateLog,
   plantTimer |-> plantTimer, now |-> now]

\* The step leaves the first revision in state t
LegacyLoad(t) ==
  /\ isRunning' = t.isRunning /\ rpm' = t.rpm /\ temp' = t.temp /\ ph' = t.ph
  /\ valveOpen' = t.valveOpen
  /\ rpmHistory' = t.rpmHistory /\ tempHistory' = t.tempHistory
  /\ stateLog' = t.stateLog
  /\ plantTimer' = t.plantTimer /\ now' = t.now
  /\ UNCHANGED << variant, mounted, isManualMode, isHeaterOn, targetRpmManual,
                  targetTempManual, alerts, auditLog, isAiProcessing, rxActive,
                  txActive, packetCount, trafficLogs, alertTimer, aiTimeouts,
                  rxTimeouts, txTimeouts, toast, ids >>

LegacyInterval ==
  /\ plantTimer = 0
  /\ ticksLeft > 0
  /\ \E d \in LegacyDraws : LegacyLoad(legacyInterval(legacyState, d))
  /\ ticksLeft' = ticksLeft - 1
  /\ UNCHANGED cmdsLeft

LegacyAdvance ==
  /\ plantTimer > 0
  /\ LegacyLoad(legacyAdvance(legacyState))
  /\ UNCHANGED << ticksLeft, cmdsLeft >>

LegacyCommand(t) ==
  /\ cmdsLeft > 0
  /\ LegacyLoad(LegacyRender(legacyState, t))
  /\ cmdsLeft' = cmdsLeft - 1
  /\ UNCHANGED ticksLeft

LegacyToggleRunning ==
  /\ mounted
  /\ LegacyCommand(legacyToggleRunning(legacyState))

LegacyEmergencyStop ==
  /\ mounted
  /\ LegacyCommand(legacyEmergencyStop(legacyState))

LegacyNext ==
  \/ LegacyInterval
  \/ LegacyAdvance
  \/ LegacyToggleRunning
  \/ LegacyEmergencyStop

LegacyInit ==
  \E s \in LegacyConsoles :
    /\ variant = "legacy" /\ mounted = TRUE
    /\ isRunning = s.isRunning /\ isManualMode = FALSE /\ isHeaterOn = FALSE
    /\ rpm = s.rpm /\ temp = s.temp /\ ph = s.ph /\ valveOpen = s.valveOpen
    /\ targetRpmManual = 0 /\ targetTempManual = 0
    /\ rpmHistory = s.rpmHistory /\ tempHistory = s.tempHistory
    /\ stateLog = s.stateLog
    /\ alerts = << >> /\ auditLog = << >> /\ isAiProcessing = FALSE
    /\ rxActive = FALSE /\ txActive = FALSE /\ packetCount = 0
    /\ trafficLogs = << >>
    /\ plantTimer = s.plantTimer /\ alertTimer = 0
    /\ aiTimeouts = << >> /\ rxTimeouts = << >> /\ txTimeouts = << >>
    /\ now = s.now /\ toast = NoToast
    /\ ids = Unfollowed
    /\ ticksLeft = MaxTicks
    /\ cmdsLeft = IF s = LegacyFresh THEN MaxCommands ELSE AgedCommands

LegacySpec == LegacyInit /\ [][LegacyNext]_vars

\* ---------------------------------------------------------------------------
\* The heater left alone: the operator has switched the heater on and gives no
\* further command, so the heater stays on and the active target stays the same
\* ---------------------------------------------------------------------------

\* Consoles whose heater has been on since 24.5 degC: in auto mode (target
\* 75 degC) at 74.90 degC, in auto mode holding at 75.05 degC for three ticks,
\* in manual mode (target 60 degC) at 59.90 degC
HoldConsoles ==
  { << Cmd("toggleHeater"), Run(336) >>,
    << Cmd("toggleHeater"), Run(340) >>,
    << Cmd("toggleMode"), Cmd("toggleHeater"), Run(236) >> }

HoldInit ==
  \E v \in Variants : \E script \in HoldConsoles :
    \E s \in {Replay(Fresh(v), script)} :
        /\ variant = s.variant /\ mounted = s.mounted
        /\ isRunning = s.isRunning /\ isManualMode = s.isManualMode
        /\ isHeaterOn = s.isHeaterOn
        /\ rpm = s.rpm /\ temp = s.temp /\ ph = s.ph /\ valveOpen = s.valveOpen
        /\ targetRpmManual = s.targetRpmManual /\ targetTempManual = s.targetTempManual
        /\ rpmHistory = s.rpmHistory /\ tempHistory = s.tempHistory
        /\ alerts = s.alerts /\ auditLog = s.auditLog /\ isAiProcessing = s.isAiProcessing
        /\ rxActive = s.rxActive /\ txActive = s.txActive /\ packetCount = s.packetCount
        /\ trafficLogs = s.trafficLogs
        /\ plantTimer = s.plantTimer /\ alertTimer = s.alertTimer
        /\ aiTimeouts = s.aiTimeouts /\ rxTimeouts = s.rxTimeouts
        /\ txTimeouts = s.txTimeouts
        /\ now = s.now /\ toast = s.toast
        /\ stateLog = << >>
        /\ ids = Unfollowed
        /\ ticksLeft = MaxHoldTicks
        /\ cmdsLeft = 0

\* The timers run, the operator does nothing
HoldNext ==
  \/ PlantInterval
  \/ AlertInterval
  \/ AiTimeout
  \/ Advance

HoldSpec == HoldInit /\ [][HoldNext]_vars

----------------------------------------------------------------------------
\* Properties

StartDenial == "Mixer cannot be started while Discharge Valve is OPEN."

EStopSeen ==
  /\ Len(auditLog) > 0
  /\ auditLog[1].level = "high"
  /\ auditLog[1].message \in {"EMERGENCY STOP TRIGGERED BY OPERATOR",
                              "EMERGENCY STOP TRIGGERED"}

\* log is prev with exactly one record put in front, cut to the capacity
OnePushed(log, prev, cap) ==
  /\ Len(log) = (IF Len(prev) < cap THEN Len(prev) + 1 ELSE cap)
  /\ \A i \in 2..Len(log) : log[i] = prev[i - 1]

\* C1: the mixer never runs while the discharge valve is open, whatever the
\* interleaving of plant ticks, alert evaluations and operator commands.
C1_MutualExclusion == ~(isRunning /\ valveOpen)

\* The mixer runs, the valve is closed and a valve command has just been refused
C1_Witness ==
  /\ isRunning /\ ~valveOpen
  /\ toast.title # ""
  /\ toast.description # StartDenial

\* C2: a start command in a state with the valve open and the mixer stopped is
\* refused: the mixer stays stopped, the audit log and the traffic log get no
\* record, no frame is counted, and a toast gives the reason.
C2_StartRefused ==
  [][(ToggleRunning /\ valveOpen /\ ~isRunning) =>
       /\ isRunning' = FALSE
       /\ auditLog' = auditLog
       /\ trafficLogs' = trafficLogs
       /\ packetCount' = packetCount
       /\ toast'.title # "" /\ toast'.description = StartDenial]_vars

\* The valve is open, the mixer is stopped and a start has just been refused
C2_Witness ==
  /\ valveOpen /\ ~isRunning
  /\ toast.description = StartDenial

\* C3: toggleValve is refused whenever the mixer runs or the speed is 1 RPM or
\* more, and a refusal leaves the valve, the audit log and the traffic log as
\* they are; it is carried out whenever the mixer is stopped below 1 RPM.
C3_ValveThresholdOne ==
  [][ToggleValve =>
       IF isRunning \/ rpm >= 1
         THEN /\ valveOpen' = valveOpen
              /\ auditLog' = auditLog
              /\ trafficLogs' = trafficLogs
         ELSE valveOpen' = ~valveOpen]_vars

\* C4: emergencyStop in any state leaves the mixer stopped, the heater off and
\* the speed at 0, and puts exactly one record, of level high, in front of the
\* audit log.
C4_EmergencyStop ==
  [][EmergencyStop =>
       /\ isRunning' = FALSE /\ isHeaterOn' = FALSE /\ rpm' = 0
       /\ OnePushed(auditLog', auditLog, AuditCap)
       /\ auditLog'[1].level = "high"]_vars

\* An emergency stop was taken while the valve was open, where a start is
\* refused, and after an earlier audit record
C4_Witness ==
  /\ EStopSeen
  /\ Len(auditLog) > 1
  /\ valveOpen /\ ~isRunning /\ ~isHeaterOn /\ rpm = 0

\* C5: the speed is never negative.
C5_SpeedNonNegative == rpm >= 0

\* A stopped mixer below 15 RPM was coasted down to 0 by a tick
C5_Witness ==
  /\ ~isRunning /\ rpm = 0
  /\ Len(rpmHistory) > 1
  /\ rpmHistory[Len(rpmHistory)].value \in 1..14
  /\ rpmHistory[Len(rpmHistory)].time # rpmHistory[Len(rpmHistory) - 1].time

\* What the evaluation that ends in this step computed is the newest alert
\* after the step: either it was put in front, or the newest alert already
\* carried its message.
Evaluated == alerts'[1].data

\* The evaluation that ends in this step found its message on the newest alert
FoundDuplicate ==
  /\ Len(alerts) > 0
  /\ alerts[1].data.alertMessage = alerts'[1].data.alertMessage
  /\ Len(alerts') = Len(alerts)

\* An alert evaluation has run to its end since the alert interval fired
EvaluationDone ==
  /\ alertTimer = AlertPeriod - AiDelay
  /\ aiTimeouts = << >>
  /\ ~isAiProcessing

\* C6 as stated: an evaluation yields high exactly when its temperature is
\* above 85.
C6_HighAbove85 ==
  [][(AiTimeout /\ mounted) =>
       (Evaluated.urgencyLevel = "high" <=> Head(aiTimeouts).temp > 8500)]_vars

\* C6 as amended: an evaluation yields high exactly when its temperature is
\* above the threshold of its revision, 80 in Dashboard.tsx and 85 in
\* part_001, for any speed and run state.
C6_HighAboveThreshold ==
  [][(AiTimeout /\ mounted) =>
       (Evaluated.urgencyLevel = "high" <=>
          Head(aiTimeouts).temp > (IF variant = "strict" THEN 8000 ELSE 8500))]_vars

\* Dashboard.tsx has evaluated a temperature above 80 and not above 85 as high
C6_Witness ==
  /\ variant = "strict"
  /\ EvaluationDone
  /\ temp \in 8001..8500
  /\ alerts # << >> /\ alerts[1].data.urgencyLevel = "high"
  /\ auditLog # << >> /\ auditLog[1].message = MsgOverheat
  /\ auditLog[1].timestamp = ClockLabel(now)

\* C7: an evaluation that sees a temperature of 85 or less, a speed below 100
\* and a running mixer yields medium, whatever the valve; any other evaluation
\* with such a temperature yields low.  Stated on the temperatures of 80 or
\* less, where the overheat rule of neither revision applies.
C7_MediumWhenSlow ==
  [][(AiTimeout /\ mounted) =>
       LET c == Head(aiTimeouts)
       IN  c.temp <= 8000 =>
             Evaluated.urgencyLevel =
               (IF c.rpm < 100 /\ c.isRunning THEN "medium" ELSE "low")]_vars

\* C8: an evaluation whose message is the message of the newest alert leaves
\* the alert list and the audit log as they are, and no evaluation adds more
\* than one alert.
C8_DuplicateDropped ==
  [][(AiTimeout /\ mounted) =>
       LET c == Head(aiTimeouts)
           message == Classify(variant, c.rpm, c.temp, c.isRunning, c.valveOpen).alertMessage
       IN  /\ (Len(alerts) > 0 /\ alerts[1].data.alertMessage = message)
                => (alerts' = alerts /\ auditLog' = auditLog)
           /\ Len(alerts') <= Len(alerts) + 1]_vars

\* An evaluation has ended on a console whose newest alert, an overheat alert
\* of an earlier evaluation, is still the only one, with its one audit record
C8_Witness ==
  /\ EvaluationDone
  /\ temp > 8500
  /\ Len(alerts) = 1 /\ alerts[1].data.alertMessage = MsgOverheat
  /\ auditLog # << >> /\ auditLog[1].message = MsgOverheat
  /\ auditLog[1].timestamp # ClockLabel(now)

\* C9: an evaluation puts a record in the audit log exactly when its result
\* is not a duplicate and its level is medium or high, and then exactly one
\* record, with the message and level of the new alert; a low result leaves
\* the audit log as it is even when it adds an alert.
C9_AlertAudit ==
  [][(AiTimeout /\ mounted) =>
       IF ~FoundDuplicate /\ Evaluated.urgencyLevel \in {"medium", "high"}
         THEN /\ OnePushed(auditLog', auditLog, AuditCap)
              /\ auditLog'[1].message = Evaluated.alertMessage
              /\ auditLog'[1].level = Evaluated.urgencyLevel
         ELSE auditLog' = auditLog]_vars

\* An evaluation has added a medium alert and its audit record
C9_Witness ==
  /\ EvaluationDone
  /\ alerts # << >> /\ alerts[1].data.urgencyLevel = "medium"
  /\ auditLog # << >> /\ auditLog[1].message = MsgLowSpeed
  /\ auditLog[1].level = "medium"

\* C10: a trend series never holds more than 60 samples, and a tick on a full
\* series drops its oldest sample, keeps the other 59 in their order and puts
\* the new sample behind them.
C10_TrendWindow ==
  /\ [](Len(rpmHistory) <= 60 /\ Len(tempHistory) <= 60)
  /\ [][(PlantInterval /\ Len(rpmHistory) = 60 /\ Len(tempHistory) = 60) =>
          /\ Len(rpmHistory') = 60 /\ Len(tempHistory') = 60
          /\ \A i \in 1..59 : /\ rpmHistory'[i] = rpmHistory[i + 1]
                              /\ tempHistory'[i] = tempHistory[i + 1]
          /\ rpmHistory'[60].time = TrendLabel(now)
          /\ tempHistory'[60].time = TrendLabel(now)]_vars

\* A tick has fired on a console whose series were full
C10_Witness ==
  /\ Len(rpmHistory) = 60 /\ Len(tempHistory) = 60
  /\ rpmHistory[1].time = TrendLabel(2 * PlantPeriod)
  /\ rpmHistory[60].time = TrendLabel(61 * PlantPeriod)
  /\ tempHistory[60].time = TrendLabel(61 * PlantPeriod)

\* C11: the audit log never holds more than 50 records and the alert list
\* never more than 5; a step that changes either store puts one record in
\* front of it, the audit record with the time of the step, and keeps the
\* others in their order, and on a full store drops exactly the oldest.
C11_BoundedStores ==
  /\ [](Len(auditLog) <= 50 /\ Len(alerts) <= 5)
  /\ [][/\ auditLog' # auditLog =>
             /\ OnePushed(auditLog', auditLog, 50)
             /\ auditLog'[1].timestamp = ClockLabel(now)
        /\ alerts' # alerts => OnePushed(alerts', alerts, 5)]_vars

\* The overheat records in the audit log
Overheats == { i \in 1..Len(auditLog) : auditLog[i].message = MsgOverheat }

\* An evaluation has just put an overheat alert on a full alert list and its
\* record on a full audit log: the log holds four overheat records, and the
\* evaluations between them added an alert each
C11_Witness ==
  /\ Len(alerts) = 5 /\ alerts[1].data.alertMessage = MsgOverheat
  /\ Len(auditLog) = 50 /\ auditLog[1].message = MsgOverheat
  /\ auditLog[1].timestamp = ClockLabel(now)
  /\ Cardinality(Overheats) = 4

\* log is prev with k records put behind it, cut at the front to the capacity
Appended(log, prev, k, cap) ==
  /\ Len(log) = (IF Len(prev) + k < cap THEN Len(prev) + k ELSE cap)
  /\ \A i \in 1..(Len(log) - k) : log[i] = prev[Len(prev) - (Len(log) - k) + i]

\* C12: the traffic log never holds more than 50 records (30 in part_001);
\* a step that counts frames puts that many records behind the log, stamped
\* with the time of the step, keeps the records before them in their order
\* and, on a full log, drops exactly the oldest; the record of a plant tick
\* is an RX record and the record of a command a TX record.
C12_TrafficWindow ==
  /\ [](Len(trafficLogs) <= 50)
  /\ [][(trafficLogs' # trafficLogs \/ packetCount' # packetCount) =>
          LET k == packetCount' - packetCount
              n == Len(trafficLogs')
          IN  /\ k \in 1..2
              /\ Appended(trafficLogs', trafficLogs, k,
                          IF variant = "strict" THEN 50 ELSE 30)
              /\ \A i \in (n - k + 1)..n :
                   trafficLogs'[i].timestamp = ClockLabel(now)
              /\ trafficLogs'[n - k + 1].direction =
                   (IF PlantInterval THEN "RX" ELSE "TX")
              /\ k = 2 => trafficLogs'[n].direction = "TX"]_vars

\* A command has put its TX record behind a traffic log of 50 records, after
\* a tick had done the same with its RX record
C12_Witness ==
  /\ Len(trafficLogs) = 50 /\ packetCount > 51
  /\ trafficLogs[49].direction = "RX" /\ trafficLogs[49].timestamp = ClockLabel(now)
  /\ trafficLogs[50].direction = "TX" /\ trafficLogs[50].timestamp = ClockLabel(now)

\* A command of the control panel that the interlocks have let through
Accepted ==
  \/ ToggleRunning /\ isRunning' # isRunning
  \/ ToggleValve /\ valveOpen' # valveOpen
  \/ ToggleHeater \/ ToggleMode \/ SetTargetRpm \/ SetTargetTemp
  \/ EmergencyStop

\* C13: every accepted command (start/stop, emergency stop, mode, heater,
\* valve, speed setpoint, temperature setpoint) puts exactly one record, with
\* the time of the command, in front of the audit log in the step that
\* changes the state.
C13_CommandAudited ==
  [][Accepted =>
       /\ OnePushed(auditLog', auditLog, AuditCap)
       /\ auditLog'[1].timestamp = ClockLabel(now)]_vars

C15_TeardownStopsAll ==
  [][~mounted =>
       /\ Len(aiTimeouts') = Len(aiTimeouts)
       /\ Len(rxTimeouts') = Len(rxTimeouts)
       /\ Len(txTimeouts') = Len(txTimeouts)
       /\ UNCHANGED << isRunning, isManualMode, isHeaterOn, rpm, temp, ph, valveOpen,
                       targetRpmManual, targetTempManual, rpmHistory, tempHistory,
                       alerts, auditLog, isAiProcessing, rxActive, txActive,
                       packetCount, trafficLogs >>]_vars

\* C16: a plant tick leaves the countdown of the alert interval as it is, so
\* the alert interval fires every 5000 ms, whatever the ticks do to speed
\* and temperature.
C16_AlertPeriodKept ==
  [][PlantInterval => alertTimer' = alertTimer]_vars

\* An evaluation has started and its timeout callback has not run yet
Pending == mounted /\ aiTimeouts # << >>

\* C17: while an evaluation is pending the plant interval fires when it is
\* due and the commands are taken; the start and the end of an evaluation
\* take no time and leave the countdown of the plant interval as it is, and
\* the countdown runs on through the delay.
C17_DelayDoesNotStall ==
  /\ [](Pending =>
          /\ (plantTimer = 0 /\ ticksLeft > 0) => ENABLED PlantInterval
          /\ cmdsLeft > 0 => /\ ENABLED ToggleRunning /\ ENABLED ToggleValve
                             /\ ENABLED ToggleHeater /\ ENABLED ToggleMode
                             /\ ENABLED EmergencyStop)
  /\ [][(AlertInterval \/ AiTimeout) =>
          plantTimer' = plantTimer /\ now' = now]_vars
  /\ [][(Pending /\ Advance) =>
          plantTimer' = plantTimer - (now' - now) /\ plantTimer' >= 0]_vars

\* A plant tick has fired while an evaluation, started earlier, was pending
C17_Witness ==
  /\ Pending /\ isAiProcessing
  /\ Head(aiTimeouts).left < AiDelay
  /\ ticksLeft < MaxTicks /\ plantTimer = PlantPeriod
  /\ trafficLogs[Len(trafficLogs)].direction = "RX"
  /\ trafficLogs[Len(trafficLogs)].timestamp = ClockLabel(now)

\* C18: the timeout callback of the evaluation that started first is the one
\* that runs, and no other step takes a pending evaluation away.  It applies
\* the classification of the speed, temperature, run state and valve that
\* the evaluation captured when it started, whatever ticks and commands have
\* done since: a result with the message of the newest alert leaves the
\* alert list as it is, any other is put in front of it.
C18_StaleResultApplied ==
  /\ [](Pending /\ Head(aiTimeouts).left = 0 => ENABLED AiTimeout)
  /\ [][(mounted /\ Len(aiTimeouts') < Len(aiTimeouts)) =>
          LET c      == Head(aiTimeouts)
              result == Classify(variant, c.rpm, c.temp, c.isRunning, c.valveOpen)
          IN  /\ AiTimeout
              /\ aiTimeouts' = Tail(aiTimeouts)
              /\ isAiProcessing' = FALSE
              /\ IF alerts # << >> /\ alerts[1].data.alertMessage = result.alertMessage
                   THEN alerts' = alerts
                   ELSE /\ OnePushed(alerts', alerts, AlertCap)
                        /\ alerts'[1].data = result]_vars

\* An evaluation that started on a slowly running mixer has ended after an
\* emergency stop: the low-speed alert and its audit record are stored while
\* the mixer is stopped
C18_Witness ==
  /\ mounted /\ aiTimeouts = << >> /\ ~isAiProcessing
  /\ ~isRunning /\ rpm = 0
  /\ alerts # << >> /\ alerts[1].data.alertMessage = MsgLowSpeed
  /\ Len(auditLog) > 1
  /\ auditLog[1].message = MsgLowSpeed /\ auditLog[1].timestamp = ClockLabel(now)
  /\ auditLog[2].level = "high"
  /\ auditLog[2].message \in {"EMERGENCY STOP TRIGGERED BY OPERATOR",
                              "EMERGENCY STOP TRIGGERED"}

\* C19: a plant tick puts exactly one sample, labelled with the time of the
\* tick, behind each trend and exactly one RX record behind the traffic log;
\* it puts a TX record behind the RX record exactly when it flips the valve;
\* it leaves the audit log and the alert list as they are.
C19_TickAppends ==
  [][PlantInterval =>
       LET k == packetCount' - packetCount
           n == Len(trafficLogs')
       IN  /\ Appended(rpmHistory', rpmHistory, 1, 60)
           /\ Appended(tempHistory', tempHistory, 1, 60)
           /\ rpmHistory'[Len(rpmHistory')].time = TrendLabel(now)
           /\ tempHistory'[Len(tempHistory')].time = TrendLabel(now)
           /\ k = (IF valveOpen' # valveOpen THEN 2 ELSE 1)
           /\ Appended(trafficLogs', trafficLogs, k, IF variant = "strict" THEN 50 ELSE 30)
           /\ trafficLogs'[n - k + 1].direction = "RX"
           /\ k = 2 => trafficLogs'[n].direction = "TX"
           /\ auditLog' = auditLog /\ alerts' = alerts]_vars

\* A tick of part_001 has flipped the valve of an idle console in auto mode
\* and has left an RX and a TX record
C19_Witness ==
  /\ variant = "lenient" /\ ~isManualMode /\ ~isRunning
  /\ valveOpen /\ auditLog = << >>
  /\ ticksLeft < MaxTicks /\ plantTimer = PlantPeriod
  /\ Len(trafficLogs) > 1
  /\ trafficLogs[Len(trafficLogs) - 1].direction = "RX"
  /\ trafficLogs[Len(trafficLogs) - 1].timestamp = ClockLabel(now)
  /\ trafficLogs[Len(trafficLogs)].direction = "TX"
  /\ trafficLogs[Len(trafficLogs)].timestamp = ClockLabel(now)
  /\ rpmHistory[Len(rpmHistory)].time = TrendLabel(now)

\* next is prev moved a tenth of the way to target, rounded down to a whole RPM
Approached(next, prev, target) ==
  /\ 10 * (next - prev) <= target - prev
  /\ target - prev < 10 * (next - prev) + 10

\* C20: a plant tick takes 15 RPM off the speed of a stopped mixer, down to
\* 0 and not below (100 -> 85); it moves the speed of a mixer that runs in
\* manual mode a tenth of the way to the speed setpoint (0 -> 50 at setpoint
\* 500), and the speed of a mixer that runs in auto mode a tenth of the way
\* to a target of at least 450 and below 500.
C20_SpeedRule ==
  [][PlantInterval =>
       /\ ~isRunning => rpm' = (IF rpm > 15 THEN rpm - 15 ELSE 0)
       /\ (isRunning /\ isManualMode) => Approached(rpm', rpm, targetRpmManual)
       /\ (isRunning /\ ~isManualMode) =>
            \E target \in 450..499 : Approached(rpm', rpm, target)
       /\ (~isRunning /\ rpm = 100) => rpm' = 85
       /\ (isRunning /\ isManualMode /\ targetRpmManual = 500 /\ rpm = 0) => rpm' = 50]_vars

\* A mixer that had settled at 100 RPM was stopped and a tick has taken its
\* speed to 85 RPM
C20_Witness ==
  /\ ~isRunning /\ rpm = 85
  /\ ticksLeft < MaxTicks /\ plantTimer = PlantPeriod
  /\ rpmHistory[Len(rpmHistory)].value = 100
  /\ rpmHistory[Len(rpmHistory)].time = TrendLabel(now)

\* C21: a plant tick with the heater on and the temperature below the target,
\* the manual setpoint in manual mode and 75 degC in auto mode, adds 0.15
\* degC (24.5 -> 24.65 at setpoint 60); with the heater on at or above the
\* target it changes the temperature by noise of less than 0.05 degC; with
\* the heater off it takes 0.05 degC off a temperature above 22 degC and
\* changes any other by noise of less than 0.01 degC.  The temperature is in
\* hundredths, rounded down.
C21_TemperatureRule ==
  [][PlantInterval =>
       LET target == IF isManualMode THEN targetTempManual ELSE 7500
       IN  /\ (isHeaterOn /\ temp < target) => temp' = temp + 15
           /\ (isHeaterOn /\ temp >= target) => temp' - temp \in -5..4
           /\ (~isHeaterOn /\ temp > 2200) => temp' = temp - 5
           /\ (~isHeaterOn /\ temp <= 2200) => temp' - temp \in -1..0
           /\ (isHeaterOn /\ isManualMode /\ targetTempManual = 6000 /\ temp = 2450)
                => temp' = 2465]_vars

\* The heater was switched on in manual mode at setpoint 60 and a tick has
\* taken the temperature from 24.5 to 24.65 degC
C21_Witness ==
  /\ isHeaterOn /\ isManualMode /\ targetTempManual = 6000
  /\ temp = 2465
  /\ ticksLeft < MaxTicks /\ plantTimer = PlantPeriod
  /\ tempHistory[Len(tempHistory)].value = 2450
  /\ tempHistory[Len(tempHistory)].time = TrendLabel(now)

\* The operator is shown a denial with its reason
DenialShown == toast'.title # "" /\ toast'.description # ""

\* C22: a start or stop and a click on the valve control, also one on the
\* locked valve, either changes the state and puts its record in front of
\* the audit log, or changes neither and shows the operator a denial with
\* its reason.
C22_NothingDropped ==
  [][/\ ToggleRunning =>
          \/ /\ isRunning' # isRunning
             /\ OnePushed(auditLog', auditLog, AuditCap)
          \/ /\ isRunning' = isRunning /\ auditLog' = auditLog
             /\ DenialShown
     /\ ToggleValve =>
          \/ /\ valveOpen' # valveOpen
             /\ OnePushed(auditLog', auditLog, AuditCap)
          \/ /\ valveOpen' = valveOpen /\ auditLog' = auditLog
             /\ DenialShown]_vars

\* A click on the valve card of a running mixer, where the panel has the
\* switch disabled, was answered with the denial of toggleValve
C22_Witness ==
  /\ valveLocked(isRunning, IF variant = "strict" THEN rpm ELSE 0)
  /\ isRunning /\ ~valveOpen
  /\ toast.description \in {"Safety Lock: Wait for 0 RPM before discharging.",
                            "Valve cannot be opened while Mixer is RUNNING."}

\* C23: no two records of the traffic log have the same id, no two of the
\* audit log and no two of the alert list, whatever was appended.
C23_IdsUnique ==
  ids.followed =>
    /\ ~Twice(ids.traffic)
    /\ ~Twice(ids.audit)
    /\ ~Twice(ids.alerts)

\* C24: the control panel shows the valve locked exactly when toggleValve
\* would refuse the click: at no speed does the panel show the valve
\* unlocked while the handler denies, and at none the reverse.
C24_LockAgrees ==
  mounted =>
    (valveLocked(isRunning, currentRpm(state))
       <=> ValveInterlock(variant, isRunning, rpm))

\* C25: the sample a plant tick appends to a trend carries the plant state
\* the tick has produced: after the tick the newest speed sample is the
\* current speed and the newest temperature sample the current temperature.
C25_SampleIsNew ==
  [][PlantInterval =>
       /\ rpmHistory'[Len(rpmHistory')].value = rpm'
       /\ tempHistory'[Len(tempHistory')].value = temp']_vars

\* C26: a plant tick changes valveOpen only in a state with manual mode off,
\* the mixer stopped and the speed below 5; in every other state the tick
\* leaves valveOpen as it is.
C26_FlipOnlyAtRest ==
  [][(PlantInterval \/ LegacyInterval) =>
       (valveOpen' # valveOpen => ~isManualMode /\ ~isRunning /\ rpm < 5)]_vars

\* C27: the tick flips the valve only in a state in which toggleValve would
\* accept a click on the valve: whenever the flip of the tick is enabled,
\* the interlock of toggleValve is clear.
C27_FlipWhereAllowed ==
  PlantDue(state) =>
    /\ plantInterval(state, [Quiet EXCEPT !.draw = TRUE]).valveOpen # valveOpen
         => ~ValveInterlock(variant, isRunning, rpm)
    /\ AutoValveFlip(variant, isManualMode, isRunning, rpm, TRUE)
         => ~ValveInterlock(variant, isRunning, rpm)

\* The valve is open and no operator has opened it: a tick has
C27_Witness ==
  /\ variant = "lenient" /\ valveOpen /\ ticksLeft < MaxTicks
  /\ ~ValveInterlock(variant, isRunning, rpm)
  /\ \A i \in 1..Len(auditLog) :
       auditLog[i].message # Prefix(variant) \o "Valve OPENED by Operator"

RECURSIVE CoastDown(_, _)
\* The speed of a mixer that stays stopped, n ticks later
CoastDown(speed, n) ==
  IF n = 0 THEN speed
  ELSE IF n = 1 THEN NextRpm(speed, FALSE, FALSE, 0, 0)
  ELSE The({ CoastDown(h, n - (n \div 2)) : h \in {CoastDown(speed, n \div 2)} })

\* ceil(a / b)
CeilDiv(a, b) == (a + b - 1) \div b

\* C28: the speed of a stopped mixer never rises from one tick to the next,
\* is exactly 0 after ceil(speed / 15) ticks without a start and is 0 on
\* the ticks after that.
C28_CoastsToStandstill ==
  ~isRunning =>
    /\ rpm \in 0..1500
    /\ PlantDue(state) =>
         /\ plantInterval(state, Quiet).rpm <= rpm
         /\ plantInterval(state, Quiet).rpm = CoastDown(rpm, 1)
         /\ rpm = 0 => plantInterval(state, Quiet).rpm = 0
    /\ CoastDown(rpm, CeilDiv(rpm, 15)) = 0
    /\ CoastDown(rpm, CeilDiv(rpm, 15) + 1) = 0
    /\ rpm > 0 => CoastDown(rpm, CeilDiv(rpm, 15) - 1) \in 1..15

\* A stopped mixer that still turned at 3 RPM has come to a standstill with
\* one tick, ceil(3 / 15) = 1
C28_Witness ==
  /\ ~isRunning /\ rpm = 0
  /\ ticksLeft < MaxTicks /\ plantTimer = PlantPeriod
  /\ rpmHistory[Len(rpmHistory)].value = 3
  /\ rpmHistory[Len(rpmHistory)].time = TrendLabel(now)

\* C29: a command of the operator leaves the countdown of the plant interval
\* as it is, so the plant tick keeps its 1000 ms period however often
\* commands arrive.
C29_CommandKeepsCountdown ==
  [][(\/ ToggleRunning \/ ToggleValve \/ ToggleHeater \/ ToggleMode
      \/ SetTargetRpm \/ SetTargetTemp \/ EmergencyStop)
       => plantTimer' = plantTimer]_vars

\* C30: the discharge valve is open only at a speed below 1 RPM, whatever
\* the order of ticks and commands.
C30_OpenOnlyAtStandstill ==
  valveOpen => rpm < 1

\* C31: an emergency stop leaves the mixer stopped at 0 RPM, and a mixer
\* stopped at 0 RPM stays so through plant ticks, alert evaluations and
\* commands: only a start that toggleRunning accepts sets it running, and
\* no step gives a stopped mixer speed.
C31_StaysStopped ==
  [][/\ EmergencyStop => (~isRunning' /\ rpm' = 0)
     /\ (~isRunning /\ rpm = 0 /\ (isRunning' \/ rpm' # 0))
          => (ToggleRunning /\ isRunning' /\ rpm' = 0 /\ ~valveOpen)]_vars

\* A running mixer was stopped by emergencyStop and a plant tick after the
\* stop has left it stopped at 0 RPM
C31_Witness ==
  /\ EStopSeen
  /\ Len(auditLog) > 1
  /\ auditLog[2].message = Prefix(variant) \o "Mixer STARTED by Operator"
  /\ ~isRunning /\ rpm = 0
  /\ ticksLeft < MaxTicks /\ plantTimer = PlantPeriod
  /\ Len(rpmHistory) > 1
  /\ rpmHistory[Len(rpmHistory)].value = 0
  /\ rpmHistory[Len(rpmHistory) - 1].value > 0
  /\ rpmHistory[Len(rpmHistory)].time = TrendLabel(now)

\* C32: emergencyStop leaves the valve, the mode, the two manual setpoints,
\* temperature and acidity, the two trend series and the alert list as they
\* are; an open valve stays open.
C32_EmergencyStopFrame ==
  [][(EmergencyStop \/ LegacyEmergencyStop) =>
       UNCHANGED << valveOpen, isManualMode, targetRpmManual, targetTempManual,
                    temp, ph, rpmHistory, tempHistory, alerts >>]_vars

\* C33: toggleRunning on a running mixer is never refused: it stops the
\* mixer and puts its record in front of the audit log, with the valve open
\* or closed and at any speed, mode and heater state.
C33_StopNeverDenied ==
  /\ [][(ToggleRunning /\ isRunning) =>
          /\ ~isRunning'
          /\ OnePushed(auditLog', auditLog, AuditCap)
          /\ auditLog'[1].message = Prefix(variant) \o "Mixer STOPPED by Operator"]_vars
  /\ [](LET s == [state EXCEPT !.isRunning = TRUE, !.valveOpen = TRUE]
        IN  /\ ~toggleRunning(s).isRunning
            /\ Len(toggleRunning(s).auditLog) > 0
            /\ toggleRunning(s).auditLog[1].message
                 = Prefix(variant) \o "Mixer STOPPED by Operator")

\* A mixer that ran in manual mode at 99 RPM or more has just been stopped
C33_Witness ==
  /\ ~isRunning /\ isManualMode /\ rpm >= 99
  /\ Len(auditLog) > 0
  /\ auditLog[1].message = Prefix(variant) \o "Mixer STOPPED by Operator"
  /\ cmdsLeft < AgedCommands

\* A step of the control panel: the operator has given a command
Commanded == cmdsLeft' < cmdsLeft /\ mounted'

\* A step of the plant interval: the only one that takes a tick off the run
Ticked == ticksLeft' < ticksLeft /\ plantTimer = 0 /\ plantTimer' = PlantPeriod

\* The command of the step was refused by an interlock
Refused ==
  \/ ToggleRunning /\ isRunning' = isRunning
  \/ ToggleValve /\ valveOpen' = valveOpen

\* C34: a command that is carried out puts exactly one TX record with the
\* write function code behind the traffic log and a refused command none;
\* an RX record is put there by a plant tick only, and every RX record has
\* the read function code.
C34_OneFramePerCommand ==
  /\ [][Commanded =>
          IF Refused
            THEN trafficLogs' = trafficLogs /\ packetCount' = packetCount
            ELSE /\ packetCount' = packetCount + 1
                 /\ Appended(trafficLogs', trafficLogs, 1,
                             IF variant = "strict" THEN 50 ELSE 30)
                 /\ trafficLogs'[Len(trafficLogs')].direction = "TX"
                 /\ trafficLogs'[Len(trafficLogs')].fc =
                      (IF variant = "strict" THEN "05" ELSE "06")]_vars
  /\ [][(/\ packetCount' > packetCount
         /\ \E i \in 1..(packetCount' - packetCount) :
              trafficLogs'[Len(trafficLogs') + 1 - i].direction = "RX")
          => Ticked]_vars
  /\ [](\A i \in 1..Len(trafficLogs) :
          trafficLogs[i].direction = "RX" => trafficLogs[i].fc = "03")

\* The speed slider was dragged to its right end and the write is the newest
\* record of the traffic log, behind the RX record of a tick
C34_Witness ==
  /\ isManualMode /\ targetRpmManual = 1500
  /\ Len(trafficLogs) > 1
  /\ trafficLogs[Len(trafficLogs)].direction = "TX"
  /\ trafficLogs[Len(trafficLogs)].fc \in {"05", "06"}
  /\ trafficLogs[Len(trafficLogs)].timestamp = ClockLabel(now)
  /\ trafficLogs[Len(trafficLogs) - 1].direction = "RX"
  /\ trafficLogs[Len(trafficLogs) - 1].fc = "03"
  /\ txActive

\* C35: the speed trend and the temperature trend have the same length and
\* the same time label at every index.
C35_TrendsAligned ==
  /\ Len(rpmHistory) = Len(tempHistory)
  /\ \A i \in 1..Len(rpmHistory) : rpmHistory[i].time = tempHistory[i].time

\* Both series are full, 60 samples each, and a tick has just added one
C35_Witness ==
  /\ Len(rpmHistory) = 60 /\ Len(tempHistory) = 60
  /\ rpmHistory[60].time = TrendLabel(now)
  /\ rpmHistory[60].time # rpmHistory[59].time
  /\ rpm # rpmHistory[60].value
  /\ ticksLeft < MaxTicks

\* C36: the speed never exceeds 1500 RPM, the largest speed setpoint.
C36_SpeedAtMostTop == rpm <= 1500

\* A mixer at its top speed, within 10 RPM of the setpoint of 1500 RPM, has
\* taken one more tick
C36_Witness ==
  /\ isRunning /\ isManualMode /\ targetRpmManual = 1500
  /\ rpm > 1490
  /\ ticksLeft < MaxTicks /\ plantTimer = PlantPeriod
  /\ rpmHistory[Len(rpmHistory)].time = TrendLabel(now)

\* The target the heater works towards
ActiveTarget == IF isManualMode THEN targetTempManual ELSE 7500

\* C37 as stated: with the heater on and the active target T fixed, from a
\* temperature at or below T the temperature never exceeds T + 0.15 + 0.05 on
\* a later tick, and in auto mode the overheating condition is never reached
C37_HoldBounded ==
  isHeaterOn =>
    /\ temp <= ActiveTarget + 20
    /\ ~isManualMode => temp <= HighTemp(variant)

\* C37 amended: with the heater on and the active target T fixed, a tick from
\* below T adds 0.15 degC, a tick from T or above changes the temperature by at
\* most 0.05 degC either way, so that the temperature stays above T - 0.05 once
\* there and k ticks after a start below T + 0.15 lies below T + 0.15 + 0.05 k
C37_HoldDrifts ==
  /\ [][Ticked =>
          /\ IF temp < ActiveTarget THEN temp' = temp + 15
                                    ELSE temp' - temp \in -5..4
          /\ temp >= ActiveTarget - 5 => temp' >= ActiveTarget - 5]_vars
  /\ [](isHeaterOn /\ temp < ActiveTarget + 15 + 5 * (MaxHoldTicks - ticksLeft))

\* The hold has drifted past T + 0.20 in auto mode, the trend still shows the
\* temperatures below T it came from
C37_Witness ==
  /\ isHeaterOn /\ ~isManualMode
  /\ temp > ActiveTarget + 20
  /\ Len(tempHistory) > 1
  /\ tempHistory[Len(tempHistory)].value = temp - 4
  /\ \E i \in 1..Len(tempHistory) : tempHistory[i].value < ActiveTarget

\* C38: packetCount is the number of traffic records ever appended, RX and TX
\* together: a step raises it by the number of records it puts behind the
\* log, and the log holds min(packetCount, capacity) records in every state
C38_CountMatchesLog ==
  /\ [](Len(trafficLogs) = IF packetCount < TrafficCap(variant) THEN packetCount
                                                                ELSE TrafficCap(variant))
  /\ [][/\ packetCount' >= packetCount
        /\ Appended(trafficLogs', trafficLogs, packetCount' - packetCount,
                    TrafficCap(variant))]_vars

\* A tick has put its RX record behind a full log of 30 records that has seen
\* hundreds of frames
C38_Witness ==
  /\ variant = "lenient"
  /\ Len(trafficLogs) = 30 /\ packetCount > 400
  /\ ticksLeft < MaxTicks
  /\ trafficLogs[30].direction = "RX" /\ trafficLogs[30].timestamp = ClockLabel(now)
====
